---- MODULE Spec2Model ----
(***************************************************************************)
(* The LLM agent / tool-calling layer of the assistant:                    *)
(*   src/modules/llm_client.py   OllamaClient (history, retries, directive *)
(*                               parsing, gateway, chat, chat_with_tools)  *)
(*   src/modules/system_tools.py SystemTools.write_file / delete_file,     *)
(*                               TOOL_FUNCTIONS                            *)
(* Texts are sequences of tokens; a token is a piece of text the regular   *)
(* expressions and json.loads of the parser tell apart.                    *)
(***************************************************************************)
EXTENDS Integers, Sequences, FiniteSets, TLC

VARIABLES
    pc,                         \* position of the running operation
    config_allow_network,       \* config.ollama.allow_network
    config_allow_system_tools,  \* config.ollama.allow_system_tools
    max_tool_iterations,        \* parameter of chat_with_tools
    allow_system_tools,         \* local of chat_with_tools (read once)
    iteration,                  \* loop variable of chat_with_tools
    current_user_message,       \* local of chat_with_tools
    final_reply,                \* local of chat_with_tools
    assistant_reply,            \* local of chat_with_tools
    system_tool_params,         \* local of chat_with_tools
    tool_params,                \* local of chat_with_tools
    returned,                   \* value returned by chat_with_tools
    conversation_history,       \* OllamaClient.conversation_history
    max_history,                \* OllamaClient.max_history
    fs,                         \* the file system the capabilities act on
    dispatches,                 \* calls of chat made by the running turn
    http_posts,                 \* POST requests sent to the chat endpoint
    fetch_requests,             \* requests sent by _perform_fetch
    tool_calls,                 \* capabilities entered, in order
    turn_log,                   \* what each chat call of the turn got
    last_call,                  \* what the last gateway call got and gave
    tool_results,               \* the [TOOL_RESULT] messages the turn made, in order
    last_fetch,                 \* the last response _perform_fetch got and the body
                                \* text it returned
    retry,                      \* locals of _post_with_retries
    outcomes,                   \* what the transport answers, per request
    appended,                   \* messages given to _add_message so far
    current_worker,             \* ChatPanel.current_worker: None, running or finished
    in_flight,                  \* calls of chat_with_tools in progress on the client
    workers_started,            \* ChatWorker threads started so far
    last_send,                  \* what the last _send_to_llm did
    async_calls,                \* calls of chat_async so far
    foreign_writers,            \* threads other than the agent loop's that changed
                                \* the history while a turn was in flight
    registry_call,              \* the last list_models / is_available / pull_model
                                \* call: what the service did and what came back
    stream,                     \* the generator of chat(message, stream=True): the
                                \* lines of the response, the position in them and
                                \* what was yielded
    session_calls               \* calls of the client made so far by the one thread
                                \* of SpecSession

vars == << pc, config_allow_network, config_allow_system_tools,
           max_tool_iterations, allow_system_tools, iteration,
           current_user_message, final_reply, assistant_reply,
           system_tool_params, tool_params, returned, conversation_history,
           max_history, fs, dispatches, http_posts, fetch_requests,
           tool_calls, turn_log, last_call, tool_results, last_fetch, retry,
           outcomes,
           appended, current_worker, in_flight, workers_started, last_send,
           async_calls, foreign_writers, registry_call, stream, session_calls >>

----------------------------------------------------------------------------
(* Bounds of the model. *)

MaxSegs == 3        \* a reply under inspection is made of at most MaxSegs segments
MaxIter == 2        \* max_tool_iterations ranges over 0..MaxIter
MaxMaxHistory == 3  \* max_history ranges over 1..MaxMaxHistory in SpecHistory
MaxAppend == 5      \* messages appended in SpecHistory
MaxWorkers == 2     \* ChatWorker threads started in SpecPanel
MaxAsync == 1       \* calls of chat_async in SpecPanel
MaxCalls == 3       \* calls made after the opening chats in SpecSession
SessionPrefix == 10 \* chats a session of SpecSession opens with, at most
MaxStreamLines == 3 \* lines of a streamed chat response in SpecStream
MaxLines == 2       \* lines of a pull_model response in SpecRegistry
PanelIter == 0      \* config.ollama.max_tool_iterations in SpecPanel

(* Program constants. *)

MaxRetries == 3     \* max_retries of _post_with_retries
BodyLimit == 4000   \* body_text[:4000]

----------------------------------------------------------------------------
(* Tokens of a reply. *)

SYS   == "TOOL:SYSTEM"
FETCH == "TOOL:FETCH"
LB    == "{"
RB    == "}"
TXT   == "text"
ERR   == "ERROR:"    \* the prefix of an inline error text

\* JSON members: each token is one or more "key": value pairs, the nested
\* object of params included.
FnTok     == {"fn_get_time", "fn_write_file", "fn_delete_file", "fn_nope"}
ParamsTok == {"params_C", "params_c", "params_D", "fp_C", "fp_D"}
UrlTok    == {"url_x"}
MemberTok == FnTok \cup ParamsTok \cup UrlTok

None == [None |-> TRUE]
IsNone(v) == "None" \in DOMAIN v

\* A path: drive letter, separator after the colon, rest of the path.
NoPath == [drive |-> "", sep |-> "", name |-> ""]
PathOf(t) ==
    CASE t \in {"params_C", "fp_C"} -> [drive |-> "C", sep |-> "\\", name |-> "a.txt"]
      [] t = "params_c"             -> [drive |-> "c", sep |-> "\\", name |-> "a.txt"]
      [] t \in {"params_D", "fp_D"} -> [drive |-> "D", sep |-> "\\", name |-> "b"]

\* The dict json.loads gives for one member.
MemberDict(t) ==
    CASE t = "fn_get_time"    -> [function |-> "get_time"]
      [] t = "fn_write_file"  -> [function |-> "write_file"]
      [] t = "fn_delete_file" -> [function |-> "delete_file"]
      [] t = "fn_nope"        -> [function |-> "nope"]
      [] t = "url_x"          -> [url |-> "http://x"]
      [] t \in {"fp_C", "fp_D"} -> [params |-> [file_path |-> PathOf(t)]]
      [] OTHER                 -> [params |-> [file_path |-> PathOf(t), content |-> "new"]]

----------------------------------------------------------------------------
(* _parse_system_tool and _parse_tool_fetch. *)

\* Index of the last "}" of the text, 0 when there is none.
LastRB(text) ==
    LET S == {i \in 1..Len(text) : text[i] = RB}
    IN IF S = {} THEN 0 ELSE CHOOSE i \in S : \A j \in S : j <= i

\* pattern.search: the leftmost marker followed (white space apart) by "{"
\* with a "}" somewhere after it; 0 when the pattern matches nowhere.
SearchMarker(text, marker) ==
    LET S == {i \in 1..Len(text) :
                /\ text[i] = marker
                /\ i + 1 <= Len(text)
                /\ text[i + 1] = LB
                /\ LastRB(text) > i + 1}
    IN IF S = {} THEN 0 ELSE CHOOSE i \in S : \A j \in S : i <= j

\* m.group(1): "{.*}" is greedy and, with DOTALL, runs to the last "}".
Group1(text, marker) ==
    SubSeq(text, SearchMarker(text, marker) + 1, LastRB(text))

\* json.loads accepts exactly one object: "{", members, "}".
JsonLoadsOk(js) ==
    /\ Len(js) >= 2
    /\ js[1] = LB
    /\ js[Len(js)] = RB
    /\ \A i \in 2..(Len(js) - 1) : js[i] \in MemberTok

RECURSIVE MergeMembers(_, _)
MergeMembers(js, i) ==
    IF i < 2 THEN << >>
    ELSE MemberDict(js[i]) @@ MergeMembers(js, i - 1)

\* The dict of a text json.loads accepts (a later key replaces an earlier one).
JsonLoads(js) == MergeMembers(js, Len(js) - 1)

\* isinstance(params, dict) and 'function' in params
HasKeyAlways(params, key) == TRUE
HasKey(params, key) == key \in DOMAIN params

ParseDirective(text, marker, key) ==
    IF text = << >> THEN None
    ELSE IF SearchMarker(text, marker) = 0 THEN None
    ELSE LET json_text == Group1(text, marker)
         IN IF ~JsonLoadsOk(json_text) THEN None
            ELSE LET params == JsonLoads(json_text)
                 IN IF HasKey(params, key) THEN params ELSE None

_parse_system_tool(text) == ParseDirective(text, SYS, "function")

_parse_tool_fetch(text) == ParseDirective(text, FETCH, "url")

----------------------------------------------------------------------------
(* The conversation history. *)

Message(role, content) == [role |-> role, content |-> content]

IsSystemMsg(m) == m.role = "system"
IsOtherMsg(m) == m.role # "system"

\* Python's s[-k:] for an integer k: -0 is 0, so k = 0 gives the whole list.
SliceLast(s, k) ==
    IF k = 0 THEN s
    ELSE IF k > 0 THEN SubSeq(s, IF Len(s) - k + 1 < 1 THEN 1 ELSE Len(s) - k + 1, Len(s))
    ELSE SubSeq(s, (0 - k) + 1, Len(s))

\* The history after _add_message(role, content).
AddMessageUntrimmed(history, limit, role, content) ==
    Append(history, Message(role, content))

AddMessageKeepsNewest(history, limit, role, content) ==
    LET h == Append(history, Message(role, content))
    IN IF Len(h) > limit THEN SliceLast(h, limit) ELSE h

AddMessage(history, limit, role, content) ==
    LET h == Append(history, Message(role, content))
    IN IF Len(h) > limit
       THEN LET system_msgs == SelectSeq(h, IsSystemMsg)
                other_msgs  == SelectSeq(h, IsOtherMsg)
            IN system_msgs \o SliceLast(other_msgs, limit - Len(system_msgs))
       ELSE h

\* The history after clear_history(): the system messages, in their order.
clear_history_all(history) == << >>
clear_history(history) == SelectSeq(history, IsSystemMsg)

\* Index of the first system message of the history, 0 when there is none.
FirstSystem(history) ==
    LET S == {i \in 1..Len(history) : IsSystemMsg(history[i])}
    IN IF S = {} THEN 0 ELSE CHOOSE i \in S : \A j \in S : i <= j

\* The history after set_system_prompt(prompt): the content of the first
\* system message is replaced; with no system message, one is added.
set_system_prompt_appends(history, limit, prompt) ==
    AddMessage(history, limit, "system", prompt)

set_system_prompt(history, limit, prompt) ==
    IF FirstSystem(history) # 0
    THEN [history EXCEPT ![FirstSystem(history)].content = prompt]
    ELSE AddMessage(history, limit, "system", prompt)

----------------------------------------------------------------------------
(* _post_with_retries. *)

\* What one request gets: a response with a status code, or an exception of
\* requests.exceptions (code 0).
Outcome ==
    [kind : {"http"}, code : {200, 404, 500, 503}]
        \cup [kind : {"ConnectionError", "Timeout"}, code : {0}]

\* An exception object: its kind, its status code and the request that made it.
NoExc == [kind |-> "none", code |-> 0, at |-> 0]
Exc(kind, code, at) == [kind |-> kind, code |-> code, at |-> at]

RetryStart ==
    [attempt |-> 0, last_exc |-> NoExc, requests |-> 0, status |-> "loop", resp |-> 0]

\* while attempt < max_retries
RetryLoopGuardOffByOne(st) == st.attempt <= MaxRetries
RetryLoopGuard(st) == st.attempt < MaxRetries

\* 500 <= resp.status_code < 600
Is5xx(code) == 500 <= code /\ code < 600

\* resp.raise_for_status() raises HTTPError, a RequestException
RaisesForStatus(code) == 400 <= code /\ code < 600

\* One pass of the loop body: one request, answered by o.
RetryStepKeepsFirst(st, o) ==
    LET n == st.requests + 1
        keep(e) == IF st.last_exc = NoExc THEN e ELSE st.last_exc
    IN IF o.kind = "http" /\ ~RaisesForStatus(o.code)
       THEN [st EXCEPT !.requests = n, !.status = "returned", !.resp = o.code]
       ELSE [st EXCEPT !.requests = n, !.attempt = @ + 1,
                       !.last_exc = keep(Exc(IF o.kind = "http" THEN "HTTPError"
                                                                ELSE o.kind,
                                             o.code, n))]

RetryStep(st, o) ==
    LET n == st.requests + 1
    IN IF o.kind = "http"
       THEN IF Is5xx(o.code)
            THEN [st EXCEPT !.requests = n, !.attempt = @ + 1,
                            !.last_exc = Exc("HTTPError", o.code, n)]
            ELSE IF RaisesForStatus(o.code)
            THEN [st EXCEPT !.requests = n, !.attempt = @ + 1,
                            !.last_exc = Exc("HTTPError", o.code, n)]
            ELSE [st EXCEPT !.requests = n, !.status = "returned", !.resp = o.code]
       ELSE [st EXCEPT !.requests = n, !.attempt = @ + 1,
                       !.last_exc = Exc(o.kind, 0, n)]

\* After the loop: raise last_exc, or the "unknown failure" exception.
RetryExhausted(st) ==
    IF st.last_exc # NoExc
    THEN [st EXCEPT !.status = "raised"]
    ELSE [st EXCEPT !.status = "raised", !.last_exc = Exc("Exception", 0, 0)]

RECURSIVE RunRetries(_, _)
RunRetries(st, outs) ==
    IF st.status # "loop" THEN st
    ELSE IF RetryLoopGuard(st) THEN RunRetries(RetryStep(st, outs[st.requests + 1]), outs)
    ELSE RetryExhausted(st)

\* The whole call, fed the outcomes outs[1], outs[2], ...
_post_with_retries(outs) == RunRetries(RetryStart, outs)

\* _get_with_retries, lines 142-162. One pass of its loop body: a 5xx answer
\* of requests.get is retried (lines 147-151), raise_for_status (line 153)
\* raises for the other error codes, and the except clause (lines 155-158)
\* keeps the exception and counts the attempt.
GetStepClientErrorReturns(st, o) ==
    LET n == st.requests + 1
    IN IF o.kind = "http"
       THEN IF Is5xx(o.code)
            THEN [st EXCEPT !.requests = n, !.attempt = @ + 1,
                            !.last_exc = Exc("HTTPError", o.code, n)]
            ELSE [st EXCEPT !.requests = n, !.status = "returned", !.resp = o.code]
       ELSE [st EXCEPT !.requests = n, !.attempt = @ + 1,
                       !.last_exc = Exc(o.kind, 0, n)]

GetStep(st, o) ==
    LET n == st.requests + 1
    IN IF o.kind = "http"
       THEN IF Is5xx(o.code)
            THEN [st EXCEPT !.requests = n, !.attempt = @ + 1,
                            !.last_exc = Exc("HTTPError", o.code, n)]
            ELSE IF RaisesForStatus(o.code)
            THEN [st EXCEPT !.attempt = @ + 1, !.requests = n,
                            !.last_exc = Exc("HTTPError", o.code, n)]
            ELSE [st EXCEPT !.requests = n, !.status = "returned", !.resp = o.code]
       ELSE [st EXCEPT !.requests = n, !.attempt = @ + 1,
                       !.last_exc = Exc(o.kind, 0, n)]

\* Lines 160-162: raise last_exc, or the "unknown GET failure" exception.
GetExhausted(st) ==
    IF st.last_exc # NoExc
    THEN [st EXCEPT !.status = "raised"]
    ELSE [st EXCEPT !.status = "raised", !.last_exc = Exc("Exception(GET)", 0, 0)]

\* while attempt < max_retries, line 144
GetLoopGuard(st) == st.attempt < MaxRetries

RECURSIVE RunGetRetries(_, _)
RunGetRetries(st, outs) ==
    IF st.status # "loop" THEN st
    ELSE IF GetLoopGuard(st) THEN RunGetRetries(GetStep(st, outs[st.requests + 1]), outs)
    ELSE GetExhausted(st)

_get_with_retries(outs) == RunGetRetries(RetryStart, outs)

----------------------------------------------------------------------------
(* list_models, is_available and pull_model. *)

\* How a piece of code ends: it returns a value, or an exception leaves it.
Returned(value) == [raised |-> FALSE, exc |-> "", value |-> value]
Raised(exc) == [raised |-> TRUE, exc |-> exc, value |-> << >>]

\* try: ... except Exception: return value
CatchNothing(r, value) == r
CatchException(r, value) == IF r.raised THEN Returned(value) ELSE r

\* What GET /api/tags answers with, status apart.
TagsBody == {"models", "no_models_key", "bad_json", "not_a_dict", "model_without_name"}

\* response.json(), data.get('models', []), model['name']
TagsNames(body) ==
    CASE body = "models"             -> Returned(<<"llama3.2", "qwen">>)
      [] body = "no_models_key"      -> Returned(<< >>)
      [] body = "bad_json"           -> Raised("JSONDecodeError")
      [] body = "not_a_dict"         -> Raised("AttributeError")
      [] body = "model_without_name" -> Raised("KeyError")

list_models(outs, body) ==
    LET get == _get_with_retries(outs)
    IN CatchException(
           IF get.status = "raised"
           THEN CatchException(Raised(get.last_exc.kind), << >>)
           ELSE TagsNames(body),
           << >>)

is_available(outs) ==
    LET get == _get_with_retries(outs)
    IN CatchException(
           CatchException(
               IF get.status = "raised"
               THEN Raised(get.last_exc.kind)
               ELSE Returned(get.resp = 200),
               FALSE),
           FALSE)

\* A line of the response of POST /api/pull, as the loop of pull_model sees it.
PullLine ==
    {"empty", "bad_json", "status", "progress", "completed_without_total",
     "not_a_dict", "stream_error"}

ErrorLine(exc) == <<ERR, exc>>

\* What one line does to the generator: it yields nothing, it yields a
\* progress line, or an exception is raised.
PullStep(line) ==
    CASE line = "empty"                   -> Returned(<< >>)
      [] line = "bad_json"                -> Returned(<< >>)
      [] line = "status"                  -> Returned(<< <<"status">> >>)
      [] line = "progress"                -> Returned(<< <<"status", "completed/total">> >>)
      [] line = "completed_without_total" -> Raised("KeyError")
      [] line = "not_a_dict"              -> Raised("AttributeError")
      [] line = "stream_error"            -> Raised("ChunkedEncodingError")

\* for line in response.iter_lines(): the loop from line i on, with what was
\* yielded before; it ends with the lines or with an exception.
RECURSIVE PullLoop(_, _, _)
PullLoop(lines, i, yielded) ==
    IF i > Len(lines) THEN Returned(yielded)
    ELSE LET step == PullStep(lines[i])
         IN IF step.raised
            THEN [raised |-> TRUE, exc |-> step.exc, value |-> yielded]
            ELSE PullLoop(lines, i + 1, yielded \o step.value)

\* pull_model(model_name), run to its end: the lines it yields.
pull_model(outs, lines) ==
    LET post == _post_with_retries(outs)
        body == IF post.status = "raised"
                THEN Raised(post.last_exc.kind)
                ELSE PullLoop(lines, 1, << >>)
    IN CatchException(body, Append(body.value, ErrorLine(body.exc)))

\* The registry calls: the operation, what the service did, what came back.
NoRegistryCall ==
    [op |-> "none", outs |-> << >>, body |-> "", lines |-> << >>,
     result |-> Returned(<< >>)]

----------------------------------------------------------------------------
(* The capabilities (system_tools.py) and the gateway (_execute_system_tool). *)

\* The functions of the table the model keeps.
TOOL_FUNCTIONS == {"get_time", "write_file", "delete_file"}

Paths ==
    {PathOf(t) : t \in ParamsTok} \cup {[drive |-> "D", sep |-> "\\", name |-> "b.txt"]}

\* A result dict: the keys the claims read.
Result(success, error, confirm, path) ==
    [success |-> success, error |-> error, requires_confirmation |-> confirm,
     file_path |-> path]

\* str.upper() on the drive letter.
Upper(c) == IF c = "c" THEN "C" ELSE IF c = "d" THEN "D" ELSE c

\* file_path.upper().startswith('C:\\')
IsCDriveCaseSensitive(path) == path.drive = "C" /\ path.sep = "\\"
IsCDrive(path) == Upper(path.drive) = "C" /\ path.sep = "\\"

\* os.path.splitext(file_name)[1]
SplitExt(name) == IF name \in {"a.txt", "b.txt"} THEN ".txt" ELSE ""

\* file_path + '.txt'
AddTxt(name) == IF name = "b" THEN "b.txt" ELSE name

\* os.path.exists(file_path)
Exists(files, path) == files[path] # "absent"

\* What a capability does: the dict it returns and the file system it leaves.
\* io_ok: whether the operating system carries out the file operation.
Outcome2(result, files) == [result |-> result, fs |-> files]

write_file_unguarded(files, file_path, content, io_ok) ==
    LET target == IF SplitExt(file_path.name) = ""
                  THEN [file_path EXCEPT !.name = AddTxt(@)]
                  ELSE file_path
    IN IF io_ok
       THEN Outcome2(Result(TRUE, "", FALSE, target), [files EXCEPT ![target] = content])
       ELSE Outcome2(Result(FALSE, "OSError", FALSE, NoPath), files)

write_file(files, file_path, content, io_ok) ==
    IF IsCDrive(file_path)
    THEN Outcome2(Result(FALSE, "requires confirmation", TRUE, file_path), files)
    ELSE write_file_unguarded(files, file_path, content, io_ok)

delete_file(files, file_path, io_ok) ==
    IF ~Exists(files, file_path)
    THEN Outcome2(Result(FALSE, "file does not exist", FALSE, NoPath), files)
    ELSE IF IsCDrive(file_path)
    THEN Outcome2(Result(FALSE, "requires confirmation", TRUE, file_path), files)
    ELSE IF io_ok
    THEN Outcome2(Result(TRUE, "", FALSE, file_path), [files EXCEPT ![file_path] = "absent"])
    ELSE Outcome2(Result(FALSE, "OSError", FALSE, NoPath), files)

get_current_time(files) == Outcome2(Result(TRUE, "", FALSE, NoPath), files)

\* TOOL_FUNCTIONS[function_name](**tool_params): whether the keyword
\* arguments bind to the parameters of the function.
Binds(function_name, kwargs) ==
    LET keys == DOMAIN kwargs
    IN CASE function_name = "get_time"    -> keys \subseteq {"format"}
         [] function_name = "write_file"  ->
                /\ {"file_path", "content"} \subseteq keys
                /\ keys \subseteq {"file_path", "content", "encoding", "mode"}
         [] function_name = "delete_file" -> keys = {"file_path"}

CallCapability(files, function_name, kwargs, io_ok) ==
    CASE function_name = "get_time"    -> get_current_time(files)
      [] function_name = "write_file"  ->
            write_file(files, kwargs.file_path, kwargs.content, io_ok)
      [] function_name = "delete_file" ->
            delete_file(files, kwargs.file_path, io_ok)

\* _execute_system_tool(params): the result returned, the file system left,
\* whether a capability was entered and, when one was, what it returned.
GatewayOut(result, files, entered, cap) ==
    [result |-> result, fs |-> files, entered |-> entered, cap |-> cap]

NoResult == Result(FALSE, "", FALSE, NoPath)

\* params.get('function')
FunctionOf(params) == IF "function" \in DOMAIN params THEN params.function ELSE "None"

_execute_system_tool(files, params, io_ok) ==
    LET function_name == IF "function" \in DOMAIN params THEN params.function ELSE ""
        kwargs   == IF "params" \in DOMAIN params THEN params.params ELSE << >>
    IN IF function_name = ""
       THEN GatewayOut(Result(FALSE, "missing function", FALSE, NoPath), files, FALSE, NoResult)
       ELSE IF function_name \notin TOOL_FUNCTIONS
       THEN GatewayOut(Result(FALSE, "unknown function", FALSE, NoPath), files, FALSE, NoResult)
       ELSE IF ~Binds(function_name, kwargs)
       THEN GatewayOut(Result(FALSE, "TypeError", FALSE, NoPath), files, FALSE, NoResult)
       ELSE LET out == CallCapability(files, function_name, kwargs, io_ok)
            IN GatewayOut(out.result, out.fs, TRUE, out.result)

----------------------------------------------------------------------------
(* chat (stream=False) and _perform_fetch. *)

\* The content of a message: plain text, or the [TOOL_RESULT] text made of a
\* tool's outcome.
PlainText(text) ==
    [tool |-> "none", text |-> text, result |-> NoResult, status_code |-> 0,
     body |-> [of |-> "", len |-> 0]]
ToolResultText(tool, name, result, status_code, body) ==
    [tool |-> tool, text |-> <<"[TOOL_RESULT]", name>>, result |-> result,
     status_code |-> status_code, body |-> body]

\* The texts chat yields in place of a reply.
RequestErrorTextBare == <<"request error">>
RequestErrorText == <<ERR, "request error">>
UnparsableText   == <<ERR, "cannot parse the response">>

\* The notices chat_with_tools appends.
SystemDeniedNotice  == "[system tools are disabled: enable allow_system_tools]"
NetworkDeniedNotice == "[tool call is disabled: enable allow_network]"
IterationLimitMark  == "[tool iteration limit reached]"

\* full_text and not full_text.startswith(ERR)
SavesReplyAlways(full_text) == TRUE
SavesReply(full_text) == full_text # << >> /\ full_text[1] # ERR

\* chat(message, stream=False), run to its end: what it yields and the history
\* it leaves. post is what _post_with_retries did; body is the response body.
chat(history, limit, message, post, body) ==
    LET h == AddMessage(history, limit, "user", message)
    IN IF post.status = "raised"
       THEN [replies |-> <<RequestErrorText>>, history |-> h]
       ELSE IF body.kind = "bad_json"
       THEN [replies |-> <<UnparsableText>>, history |-> h]
       ELSE IF body.kind = "no_message"
       THEN [replies |-> << >>, history |-> h]
       ELSE [replies |-> <<body.text>>,
             history |-> IF SavesReply(body.text)
                         THEN AddMessage(h, limit, "assistant", PlainText(body.text))
                         ELSE h]

\* chat(message, stream=True), lines 532-557. A line of the response body as
\* the loop sees it: an empty line, a line json.loads rejects, a JSON value
\* that is not an object, or an object with or without message.content and
\* with or without a true "done".
Blank     == [kind |-> "empty", has |-> FALSE, content |-> << >>, done |-> FALSE]
BadJson   == [kind |-> "bad_json", has |-> FALSE, content |-> << >>, done |-> FALSE]
NotObject == [kind |-> "not_object", has |-> FALSE, content |-> << >>, done |-> FALSE]
Chunk(content, done) ==
    [kind |-> "object", has |-> TRUE, content |-> content, done |-> done]
NoContent(done) ==
    [kind |-> "object", has |-> FALSE, content |-> << >>, done |-> done]

\* The generator before it is started.
NoStream ==
    [lines |-> << >>, next |-> 1, yielded |-> << >>, full_response |-> << >>,
     status |-> "none"]

\* A yielded text and the line it was yielded for (0: no line).
Yield(line, token) == [line |-> line, token |-> token]

\* One pass of the loop body, lines 535-557, on line number i: what is
\* yielded and whether an exception leaves the loop.
StreamStepAbortsOnBadJson(line, i) ==
    CASE line.kind = "empty"      -> [raised |-> FALSE, yields |-> << >>]
      [] line.kind = "bad_json"   -> [raised |-> TRUE, yields |-> << >>]
      [] line.kind = "not_object" -> [raised |-> TRUE, yields |-> << >>]
      [] line.kind = "object"     ->
            [raised |-> FALSE,
             yields |-> IF line.has THEN <<Yield(i, line.content)>> ELSE << >>]

StreamStep(line, i) ==
    CASE line.kind = "empty"      -> [raised |-> FALSE, yields |-> << >>]
      [] line.kind = "bad_json"   -> [raised |-> FALSE, yields |-> << >>]
      [] line.kind = "not_object" -> [raised |-> TRUE, yields |-> << >>]
      [] line.kind = "object"     ->
            [raised |-> FALSE,
             yields |-> IF line.has THEN <<Yield(i, line.content)>> ELSE << >>]

\* ''.join(full_response)
RECURSIVE Join(_)
Join(tokens) == IF tokens = << >> THEN << >> ELSE Head(tokens) \o Join(Tail(tokens))

\* The finally clause, lines 587-591.
SaveReply(history, limit, full_response) ==
    IF SavesReply(Join(full_response))
    THEN AddMessage(history, limit, "assistant", PlainText(Join(full_response)))
    ELSE history

\* A text known by the text it is the start of and by its length: the
\* first len characters of "of".
TextOf(of, len) == [of |-> of, len |-> len]
NoText == TextOf("", 0)

\* What _perform_fetch returns as 'body', lines 331-340: resp.text, or for a
\* response with 'application/json' in its Content-Type the text json.dumps
\* makes of resp.json(); when resp.json() raises, resp.text. A response
\* whose text is not what json.dumps writes (other spacing, escapes) gives a
\* text of its own, of length dumped.
BodyTextVerbatim(resp) == resp.text
BodyText(resp) ==
    IF resp.ctype = "application/json" /\ resp.valid_json /\ ~resp.canonical
    THEN TextOf("json.dumps(resp.json())", resp.dumped)
    ELSE resp.text

\* body_text[:4000]
TruncateNever(text) == text
Truncate(text) == [text EXCEPT !.len = IF @ > BodyLimit THEN BodyLimit ELSE @]

\* Before any fetch.
NoFetch == [response |-> NoText, returned |-> NoText, placed |-> NoText]

----------------------------------------------------------------------------
(* The inputs of the model. *)

SysGetTime   == <<SYS, LB, "fn_get_time", RB>>
SysWriteD    == <<SYS, LB, "fn_write_file", "params_D", RB>>
SysWriteC    == <<SYS, LB, "fn_write_file", "params_C", RB>>
SysNope      == <<SYS, LB, "fn_nope", RB>>
SysNoKey     == <<SYS, LB, RB>>
SysUnclosed  == <<SYS, LB, TXT>>
FetchX       == <<FETCH, LB, "url_x", RB>>

\* The replies the chat endpoint gives in Spec.
LoopReplies ==
    {<< >>, <<TXT>>, <<ERR, TXT>>, SysGetTime, SysWriteD, SysNope, FetchX}

\* The response bodies of the chat endpoint.
Bodies ==
    [kind : {"content"}, text : LoopReplies]
        \cup [kind : {"no_message", "bad_json"}, text : {<< >>}]

\* What the chat endpoint answers to the requests of one Dispatch.
ChatOutcome == {o \in Outcome : o.code \in {200, 503} \/ o.kind = "ConnectionError"}

\* What a request of _perform_fetch gets: a response (status, body length) or
\* an exception.
Response(ctype, len, valid_json, canonical, dumped) ==
    [ctype |-> ctype, text |-> TextOf("resp.text", len), valid_json |-> valid_json,
     canonical |-> canonical, dumped |-> dumped]

\* The responses: an empty text, a text longer than the limit, a JSON body
\* longer than the limit written as json.dumps writes it, and a short JSON
\* body written more compactly.
FetchResponses ==
    {Response("text/html", 0, FALSE, FALSE, 0),
     Response("text/html", BodyLimit + 1, FALSE, FALSE, 0),
     Response("application/json", BodyLimit + 1, TRUE, TRUE, BodyLimit + 1),
     Response("application/json", 7, TRUE, FALSE, 8)}

FetchOutcome ==
    [kind : {"http"}, code : {200}, body : FetchResponses]
        \cup [kind : {"ConnectionError"}, code : {0}, body : {NoText}]

\* The segments the replies of SpecInspect are made of.
Segment ==
    {<<SYS>>, <<FETCH>>, <<LB>>, <<RB>>, <<TXT>>, <<"fn_get_time">>,
     SysGetTime, FetchX, SysNoKey, SysUnclosed}

RECURSIVE TextsOf(_)
TextsOf(n) ==
    IF n = 0 THEN {<< >>}
    ELSE LET T == TextsOf(n - 1)
         IN T \cup {t \o g : t \in T, g \in Segment}

\* The dicts _execute_system_tool is called with in SpecGateway.
GatewayParams ==
    {MemberDict(f) : f \in FnTok}
        \cup {MemberDict(f) @@ MemberDict(q) : f \in FnTok, q \in ParamsTok}
        \cup {MemberDict(q) : q \in ParamsTok}

MaxHistoryDefault == 20     \* self.max_history = 20

SystemPrompt == PlainText(<<"system prompt">>)
Utterance == {<< >>, <<TXT>>}

\* The history __init__ leaves.
HistoryAfterInit == AddMessage(<< >>, MaxHistoryDefault, "system", SystemPrompt)

NoFiles  == [q \in Paths |-> "absent"]
OldFiles == [q \in Paths |-> "old"]

NoCall ==
    [params |-> None, result |-> NoResult, entered |-> FALSE, cap |-> NoResult,
     fs_before |-> NoFiles]

----------------------------------------------------------------------------
(* The state before any operation. *)

InitLocals ==
    /\ max_tool_iterations = 0
    /\ allow_system_tools = TRUE
    /\ iteration = 0
    /\ current_user_message = PlainText(<< >>)
    /\ final_reply = << >>
    /\ assistant_reply = << >>
    /\ system_tool_params = None
    /\ tool_params = None
    /\ returned = << >>
    /\ dispatches = 0
    /\ http_posts = 0
    /\ fetch_requests = 0
    /\ tool_calls = << >>
    /\ turn_log = << >>
    /\ last_call = NoCall
    /\ tool_results = << >>
    /\ last_fetch = NoFetch

InitClient ==
    /\ conversation_history = HistoryAfterInit
    /\ max_history = MaxHistoryDefault

InitRetry ==
    /\ retry = RetryStart
    /\ outcomes = << >>
    /\ registry_call = NoRegistryCall
    /\ stream = NoStream
    /\ session_calls = 0

\* ChatPanel.__init__: no worker yet.
InitHost ==
    /\ current_worker = "None"
    /\ in_flight = 0
    /\ workers_started = 0
    /\ last_send = "none"
    /\ async_calls = 0
    /\ foreign_writers = {}

Init ==
    /\ pc = "idle"
    /\ config_allow_network \in BOOLEAN
    /\ config_allow_system_tools \in BOOLEAN
    /\ fs = OldFiles
    /\ appended = << >>
    /\ InitLocals
    /\ InitClient
    /\ InitRetry
    /\ InitHost

----------------------------------------------------------------------------
(* chat_with_tools. *)

configVars == <<config_allow_network, config_allow_system_tools>>
sideVars   == <<max_history, retry, outcomes, appended, registry_call, stream,
                session_calls>>
hostVars   == <<current_worker, in_flight, workers_started, last_send,
                async_calls, foreign_writers>>

\* Line 407: not allow_system_tools
SystemToolsPermittedAlways == TRUE
SystemToolsPermittedFromConfig == config_allow_system_tools
SystemToolsPermitted == allow_system_tools

\* Line 442: bool(getattr(config.ollama, 'allow_network', False))
FetchPermittedAlways == TRUE
FetchPermitted == config_allow_network

\* Line 310, in _perform_fetch
PerformFetchPermitted == config_allow_network

\* Lines 372-384: the empty utterance returns at once; otherwise the locals
\* are set and the loop is entered.
BeginTurnDispatchesEmpty(message, n) ==
    /\ pc = "idle"
    /\ max_tool_iterations' = n
    /\ allow_system_tools' = config_allow_system_tools
    /\ current_user_message' = PlainText(message)
    /\ returned' = returned
    /\ pc' = "dispatch"
    /\ final_reply' = << >>
    /\ iteration' = 0
    /\ UNCHANGED <<assistant_reply, system_tool_params, tool_params,
                   conversation_history, fs, dispatches, http_posts,
                   fetch_requests, tool_calls, turn_log, last_call, tool_results,
                   last_fetch>>
    /\ UNCHANGED <<configVars, sideVars, hostVars>>

BeginTurn(message, n) ==
    /\ pc = "idle"
    /\ IF message = << >>
       THEN /\ returned' = << >>
            /\ pc' = "done"
            /\ UNCHANGED <<max_tool_iterations, allow_system_tools,
                           current_user_message>>
       ELSE /\ max_tool_iterations' = n
            /\ allow_system_tools' = config_allow_system_tools
            /\ current_user_message' = PlainText(message)
            /\ returned' = returned
            /\ pc' = "dispatch"
    /\ final_reply' = << >>
    /\ iteration' = 0
    /\ UNCHANGED <<assistant_reply, system_tool_params, tool_params,
                   conversation_history, fs, dispatches, http_posts,
                   fetch_requests, tool_calls, turn_log, last_call, tool_results,
                   last_fetch>>
    /\ UNCHANGED <<configVars, sideVars, hostVars>>

\* chat_with_tools(message, max_tool_iterations=n), for any utterance and
\* any bound.
StartTurn == \E message \in Utterance, n \in 0..MaxIter : BeginTurn(message, n)

\* Lines 388-398: one call of chat, joined into assistant_reply.
DispatchWith(answers, bodies) ==
    /\ pc = "dispatch"
    /\ \E outs \in answers, body \in bodies :
          LET post == _post_with_retries(outs)
              c    == chat(conversation_history, max_history,
                           current_user_message, post, body)
          IN /\ conversation_history' = c.history
             /\ http_posts' = http_posts + post.requests
             /\ turn_log' = Append(turn_log, [post |-> post.status, replies |-> c.replies])
             /\ IF c.replies = << >>
                THEN /\ returned' = << >>
                     /\ pc' = "done"
                     /\ UNCHANGED <<assistant_reply, final_reply>>
                ELSE /\ assistant_reply' = c.replies[1]
                     /\ final_reply' = c.replies[1]
                     /\ pc' = "inspect"
                     /\ returned' = returned
    /\ dispatches' = dispatches + 1
    /\ UNCHANGED <<max_tool_iterations, allow_system_tools, iteration,
                   current_user_message, system_tool_params, tool_params, fs,
                   fetch_requests, tool_calls, last_call, tool_results,
                   last_fetch>>
    /\ UNCHANGED <<configVars, sideVars, hostVars>>

\* The call of chat with any answers of the endpoint to its requests.
Dispatch == DispatchWith([1..MaxRetries -> ChatOutcome], Bodies)

\* Lines 400-410 and 433-445: the directive of the reply and its permission.
Inspect ==
    /\ pc = "inspect"
    /\ system_tool_params' = _parse_system_tool(assistant_reply)
    /\ IF ~IsNone(system_tool_params')
       THEN /\ tool_params' = tool_params
            /\ IF ~SystemToolsPermitted
               THEN /\ returned' = Append(final_reply, SystemDeniedNotice)
                    /\ pc' = "done"
               ELSE /\ returned' = returned
                    /\ pc' = "exec_system"
       ELSE /\ tool_params' = _parse_tool_fetch(assistant_reply)
            /\ IF IsNone(tool_params')
               THEN /\ returned' = final_reply
                    /\ pc' = "done"
               ELSE IF ~FetchPermitted
               THEN /\ returned' = Append(final_reply, NetworkDeniedNotice)
                    /\ pc' = "done"
               ELSE /\ returned' = returned
                    /\ pc' = "exec_fetch"
    /\ UNCHANGED <<max_tool_iterations, allow_system_tools, iteration,
                   current_user_message, final_reply, assistant_reply,
                   conversation_history, fs, dispatches, http_posts,
                   fetch_requests, tool_calls, turn_log, last_call, tool_results,
                   last_fetch>>
    /\ UNCHANGED <<configVars, sideVars, hostVars>>

\* "continue", and the end of the for loop (line 480).
NextIterationOneMore ==
    IF iteration <= max_tool_iterations
    THEN /\ iteration' = iteration + 1
         /\ pc' = "dispatch"
         /\ returned' = returned
    ELSE /\ iteration' = iteration
         /\ pc' = "done"
         /\ returned' = Append(final_reply, IterationLimitMark)

NextIterationNoMark ==
    IF iteration < max_tool_iterations
    THEN /\ iteration' = iteration + 1
         /\ pc' = "dispatch"
         /\ returned' = returned
    ELSE /\ iteration' = iteration
         /\ pc' = "done"
         /\ returned' = final_reply

NextIteration ==
    IF iteration < max_tool_iterations
    THEN /\ iteration' = iteration + 1
         /\ pc' = "dispatch"
         /\ returned' = returned
    ELSE /\ iteration' = iteration
         /\ pc' = "done"
         /\ returned' = Append(final_reply, IterationLimitMark)

\* Lines 412-431: the system tool is run and its result becomes the next
\* user message.
ExecuteSystem ==
    /\ pc = "exec_system"
    /\ \E io_ok \in BOOLEAN :
          LET out == _execute_system_tool(fs, system_tool_params, io_ok)
          IN /\ fs' = out.fs
             /\ tool_calls' = IF out.entered
                               THEN Append(tool_calls, system_tool_params.function)
                               ELSE tool_calls
             /\ last_call' = [params |-> system_tool_params, result |-> out.result,
                               entered |-> out.entered, cap |-> out.cap,
                               fs_before |-> fs]
             /\ current_user_message' =
                    ToolResultText("system", FunctionOf(system_tool_params),
                                   out.result, 0, [of |-> "", len |-> 0])
    /\ tool_results' = Append(tool_results, current_user_message')
    /\ NextIteration
    /\ UNCHANGED <<max_tool_iterations, allow_system_tools, final_reply,
                   assistant_reply, system_tool_params, tool_params,
                   conversation_history, dispatches, http_posts, fetch_requests,
                   turn_log, last_fetch>>
    /\ UNCHANGED <<configVars, sideVars, hostVars>>

\* Lines 447-475 and _perform_fetch: the request is sent when the network is
\* allowed, and its outcome becomes the next user message.
ExecuteFetch ==
    /\ pc = "exec_fetch"
    /\ IF ~PerformFetchPermitted
       THEN /\ fetch_requests' = fetch_requests
            /\ last_fetch' = last_fetch
            /\ current_user_message' =
                   ToolResultText("fetch", "error",
                                  Result(FALSE, "PermissionError", FALSE, NoPath),
                                  0, NoText)
       ELSE \E o \in FetchOutcome :
              /\ fetch_requests' = fetch_requests + 1
              /\ last_fetch' =
                     IF o.kind = "http"
                     THEN [response |-> o.body.text, returned |-> BodyText(o.body),
                           placed |-> Truncate(BodyText(o.body))]
                     ELSE last_fetch
              /\ current_user_message' =
                     IF o.kind = "http"
                     THEN ToolResultText("fetch", tool_params.url,
                                         Result(TRUE, "", FALSE, NoPath),
                                         o.code, Truncate(BodyText(o.body)))
                     ELSE ToolResultText("fetch", "error",
                                         Result(FALSE, o.kind, FALSE, NoPath),
                                         0, NoText)
    /\ tool_results' = Append(tool_results, current_user_message')
    /\ NextIteration
    /\ UNCHANGED <<max_tool_iterations, allow_system_tools, final_reply,
                   assistant_reply, system_tool_params, tool_params,
                   conversation_history, fs, dispatches, http_posts,
                   tool_calls, turn_log, last_call>>
    /\ UNCHANGED <<configVars, sideVars, hostVars>>

Next == StartTurn \/ Dispatch \/ Inspect \/ ExecuteSystem \/ ExecuteFetch

Spec == Init /\ [][Next]_vars

----------------------------------------------------------------------------
(* One iteration of chat_with_tools on any reply: the state after the first  *)
(* Dispatch of a turn, for every text the chat endpoint may have replied.    *)

loopLocals == <<max_tool_iterations, allow_system_tools, iteration,
                current_user_message, final_reply, assistant_reply,
                system_tool_params, tool_params, returned, dispatches,
                http_posts, fetch_requests, tool_calls, turn_log, last_call,
                tool_results,
                   last_fetch>>

InitInspect ==
    /\ pc = "inspect"
    /\ config_allow_network \in BOOLEAN
    /\ config_allow_system_tools \in BOOLEAN
    /\ allow_system_tools = config_allow_system_tools
    /\ max_tool_iterations = MaxIter
    /\ iteration = 0
    /\ current_user_message = PlainText(<<TXT>>)
    /\ assistant_reply \in TextsOf(MaxSegs)
    /\ final_reply = assistant_reply
    /\ system_tool_params = None
    /\ tool_params = None
    /\ returned = << >>
    /\ dispatches = 1
    /\ http_posts = 1
    /\ fetch_requests = 0
    /\ tool_calls = << >>
    /\ turn_log = <<[post |-> "returned", replies |-> <<assistant_reply>>]>>
    /\ last_call = NoCall
    /\ tool_results = << >>
    /\ last_fetch = NoFetch
    /\ max_history = MaxHistoryDefault
    /\ conversation_history =
           chat(HistoryAfterInit, MaxHistoryDefault, PlainText(<<TXT>>),
                [RetryStart EXCEPT !.status = "returned", !.requests = 1, !.resp = 200],
                [kind |-> "content", text |-> assistant_reply]).history
    /\ fs = OldFiles
    /\ appended = << >>
    /\ InitRetry
    /\ InitHost

NextInspect == Inspect \/ ExecuteSystem \/ ExecuteFetch

SpecInspect == InitInspect /\ [][NextInspect]_vars

----------------------------------------------------------------------------
(* _post_with_retries, request by request. *)

InitPost ==
    /\ pc = "post"
    /\ outcomes \in [1..(MaxRetries + 1) -> Outcome]
    /\ retry = RetryStart
    /\ registry_call = NoRegistryCall
    /\ stream = NoStream
    /\ session_calls = 0
    /\ config_allow_network = TRUE
    /\ config_allow_system_tools = TRUE
    /\ fs = OldFiles
    /\ appended = << >>
    /\ InitLocals
    /\ InitClient
    /\ InitHost

\* Lines 115-131: one pass of the while loop.
PostAttempt ==
    /\ pc = "post"
    /\ retry.status = "loop"
    /\ RetryLoopGuard(retry)
    /\ retry' = RetryStep(retry, outcomes[retry.requests + 1])
    /\ UNCHANGED <<pc, outcomes, configVars, loopLocals, conversation_history,
                   max_history, fs, appended, hostVars, registry_call, stream,
                   session_calls>>

\* Lines 133-136: the loop is left with every attempt failed.
PostExhausted ==
    /\ pc = "post"
    /\ retry.status = "loop"
    /\ ~RetryLoopGuard(retry)
    /\ retry' = RetryExhausted(retry)
    /\ UNCHANGED <<pc, outcomes, configVars, loopLocals, conversation_history,
                   max_history, fs, appended, hostVars, registry_call, stream,
                   session_calls>>

NextPost == PostAttempt \/ PostExhausted

SpecPost == InitPost /\ [][NextPost]_vars

----------------------------------------------------------------------------
(* _execute_system_tool on any call, on any file system. *)

InitGateway ==
    /\ pc = "gateway"
    /\ fs \in [Paths -> {"absent", "old"}]
    /\ config_allow_network = TRUE
    /\ config_allow_system_tools = TRUE
    /\ appended = << >>
    /\ InitLocals
    /\ InitClient
    /\ InitRetry
    /\ InitHost

GatewayCall ==
    /\ pc = "gateway"
    /\ \E params \in GatewayParams, io_ok \in BOOLEAN :
          LET out == _execute_system_tool(fs, params, io_ok)
          IN /\ fs' = out.fs
             /\ last_call' = [params |-> params, result |-> out.result,
                               entered |-> out.entered, cap |-> out.cap,
                               fs_before |-> fs]
             /\ tool_calls' = IF out.entered THEN <<params.function>> ELSE << >>
    /\ UNCHANGED <<pc, max_tool_iterations, allow_system_tools, iteration,
                   current_user_message, final_reply, assistant_reply,
                   system_tool_params, tool_params, returned, dispatches,
                   http_posts, fetch_requests, turn_log, tool_results, last_fetch,
                   conversation_history>>
    /\ UNCHANGED <<configVars, sideVars, hostVars>>

NextGateway == GatewayCall

SpecGateway == InitGateway /\ [][NextGateway]_vars

----------------------------------------------------------------------------
(* _add_message, for any limit and any roles. *)

Role == {"system", "user", "assistant"}

InitHistory ==
    /\ pc = "history"
    /\ max_history \in 1..MaxMaxHistory
    /\ conversation_history = << >>
    /\ appended = << >>
    /\ config_allow_network = TRUE
    /\ config_allow_system_tools = TRUE
    /\ fs = OldFiles
    /\ InitLocals
    /\ InitRetry
    /\ InitHost

\* _add_message(role, content); the content tells the messages apart.
AddMessageCall ==
    /\ pc = "history"
    /\ Len(appended) < MaxAppend
    /\ \E role \in Role :
          LET content == Len(appended) + 1
          IN /\ appended' = Append(appended, Message(role, content))
             /\ conversation_history' =
                    AddMessage(conversation_history, max_history, role, content)
    /\ UNCHANGED <<pc, max_history, configVars, loopLocals, fs, retry, outcomes,
                   hostVars, registry_call, stream,
                   session_calls>>

NextHistory == AddMessageCall

SpecHistory == InitHistory /\ [][NextHistory]_vars

----------------------------------------------------------------------------
(* The chat panel (chat_panel.py) and the other entry points of the client.  *)
(* The GUI thread runs _send_to_llm, clear_history and set_system_prompt; a  *)
(* ChatWorker thread runs chat_with_tools; chat_async runs chat on a thread  *)
(* of its own. The queue thread of __init__ waits in request_queue.get() for *)
(* ever (nothing puts to the queue), so it has no step.                      *)

Prompts == {SystemPrompt, PlainText(<<"new prompt">>)}

\* The answers of the chat endpoint in SpecPanel: every request of one call
\* of chat gets the same outcome (a response or a connection error), and the
\* body is plain text or a system tool directive.
PanelAnswers ==
    {[i \in 1..MaxRetries |-> o] : o \in {c \in ChatOutcome : c.code # 503}}
PanelBodies  == [kind : {"content"}, text : {<<TXT>>, SysGetTime}]

\* self.current_worker and self.current_worker.isRunning()
WorkerBusyNever == FALSE
WorkerBusy == current_worker # "None" /\ current_worker = "running"

\* A write to the history by a thread that is not the agent loop's.
ForeignWrite(thread) ==
    foreign_writers' = IF in_flight > 0
                       THEN foreign_writers \cup {thread}
                       ELSE foreign_writers

\* ChatPanel._send_to_llm: a send while a worker runs is dropped; otherwise
\* a ChatWorker is made and started.
SendToLlm ==
    /\ IF WorkerBusy
       THEN /\ last_send' = "rejected"
            /\ UNCHANGED <<current_worker, in_flight, workers_started>>
       ELSE /\ workers_started < MaxWorkers
            /\ current_worker' = "running"
            /\ in_flight' = in_flight + 1
            /\ workers_started' = workers_started + 1
            /\ last_send' = "started"
    /\ UNCHANGED <<pc, loopLocals, conversation_history, fs, async_calls,
                   foreign_writers>>
    /\ UNCHANGED <<configVars, sideVars>>

\* ChatWorker.run, line 133: the call of chat_with_tools.
WorkerRun ==
    /\ current_worker = "running"
    /\ \E message \in Utterance : BeginTurn(message, PanelIter)

\* The call of chat made by the worker's chat_with_tools.
PanelDispatch == DispatchWith(PanelAnswers, PanelBodies)

\* ChatWorker.run, lines 135-141: the reply is emitted and the thread ends.
WorkerFinished ==
    /\ current_worker = "running"
    /\ pc = "done"
    /\ current_worker' = "finished"
    /\ in_flight' = in_flight - 1
    /\ pc' = "idle"
    /\ max_tool_iterations' = 0
    /\ allow_system_tools' = TRUE
    /\ iteration' = 0
    /\ current_user_message' = PlainText(<< >>)
    /\ final_reply' = << >>
    /\ assistant_reply' = << >>
    /\ system_tool_params' = None
    /\ tool_params' = None
    /\ returned' = << >>
    /\ dispatches' = 0
    /\ http_posts' = 0
    /\ fetch_requests' = 0
    /\ tool_calls' = << >>
    /\ turn_log' = << >>
    /\ last_call' = NoCall
    /\ tool_results' = << >>
    /\ last_fetch' = NoFetch
    /\ UNCHANGED <<conversation_history, fs, workers_started, last_send,
                   async_calls, foreign_writers>>
    /\ UNCHANGED <<configVars, sideVars>>

\* ChatPanel.clear_history, line 523: OllamaClient.clear_history on the GUI
\* thread, whether or not a worker runs.
PanelClearHistory ==
    /\ conversation_history' = clear_history(conversation_history)
    /\ ForeignWrite("gui")
    /\ UNCHANGED <<pc, loopLocals, fs, current_worker, in_flight,
                   workers_started, last_send, async_calls>>
    /\ UNCHANGED <<configVars, sideVars>>

\* OllamaClient.set_system_prompt, called by the host.
SetSystemPrompt ==
    /\ \E prompt \in Prompts :
          conversation_history' =
              set_system_prompt(conversation_history, max_history, prompt)
    /\ ForeignWrite("gui")
    /\ UNCHANGED <<pc, loopLocals, fs, current_worker, in_flight,
                   workers_started, last_send, async_calls>>
    /\ UNCHANGED <<configVars, sideVars>>

\* OllamaClient.chat_async: a thread of its own runs chat(message).
ChatAsync ==
    /\ async_calls < MaxAsync
    /\ async_calls' = async_calls + 1
    /\ \E outs \in PanelAnswers, body \in PanelBodies :
          conversation_history' =
              chat(conversation_history, max_history, PlainText(<<TXT>>),
                   _post_with_retries(outs), body).history
    /\ ForeignWrite("async")
    /\ UNCHANGED <<pc, loopLocals, fs, current_worker, in_flight,
                   workers_started, last_send>>
    /\ UNCHANGED <<configVars, sideVars>>

NextPanel ==
    \/ SendToLlm
    \/ WorkerRun
    \/ PanelDispatch
    \/ Inspect
    \/ ExecuteSystem
    \/ WorkerFinished
    \/ PanelClearHistory
    \/ SetSystemPrompt
    \/ ChatAsync

\* The panel after __init__, with the defaults of OllamaConfig.
InitPanel ==
    /\ Init
    /\ config_allow_network = TRUE
    /\ config_allow_system_tools = TRUE

SpecPanel == InitPanel /\ [][NextPanel]_vars

----------------------------------------------------------------------------
(* One call of list_models, is_available or pull_model, whatever the         *)
(* service does.                                                             *)

RECURSIVE LinesOf(_)
LinesOf(n) ==
    IF n = 0 THEN {<< >>}
    ELSE LET T == LinesOf(n - 1)
         IN T \cup {Append(t, l) : t \in T, l \in PullLine}

InitRegistry ==
    /\ pc = "registry"
    /\ config_allow_network = TRUE
    /\ config_allow_system_tools = TRUE
    /\ fs = OldFiles
    /\ appended = << >>
    /\ InitLocals
    /\ InitClient
    /\ InitRetry
    /\ InitHost

registryFrame ==
    <<pc, configVars, loopLocals, conversation_history, max_history, fs,
      appended, retry, outcomes, hostVars, stream, session_calls>>

ListModels ==
    /\ pc = "registry"
    /\ registry_call.op = "none"
    /\ \E outs \in [1..MaxRetries -> Outcome], body \in TagsBody :
          registry_call' = [op |-> "list_models", outs |-> outs, body |-> body,
                            lines |-> << >>, result |-> list_models(outs, body)]
    /\ UNCHANGED registryFrame

IsAvailable ==
    /\ pc = "registry"
    /\ registry_call.op = "none"
    /\ \E outs \in [1..MaxRetries -> Outcome] :
          registry_call' = [op |-> "is_available", outs |-> outs, body |-> "",
                            lines |-> << >>, result |-> is_available(outs)]
    /\ UNCHANGED registryFrame

PullModel ==
    /\ pc = "registry"
    /\ registry_call.op = "none"
    /\ \E outs \in [1..MaxRetries -> ChatOutcome], lines \in LinesOf(MaxLines) :
          registry_call' = [op |-> "pull_model", outs |-> outs, body |-> "",
                            lines |-> lines, result |-> pull_model(outs, lines)]
    /\ UNCHANGED registryFrame

NextRegistry == ListModels \/ IsAvailable \/ PullModel

SpecRegistry == InitRegistry /\ [][NextRegistry]_vars

----------------------------------------------------------------------------
(* chat(message, stream=True), line by line, on any response body.           *)

\* The lines a streamed response is made of.
StreamLine ==
    {Blank, BadJson, NotObject, NoContent(FALSE), NoContent(TRUE),
     Chunk(<<"a">>, FALSE), Chunk(<<"b">>, FALSE), Chunk(<<"b">>, TRUE),
     Chunk(<< >>, TRUE)}

RECURSIVE StreamsOf(_)
StreamsOf(n) ==
    IF n = 0 THEN {<< >>}
    ELSE LET T == StreamsOf(n - 1)
         IN T \cup {Append(t, l) : t \in T, l \in StreamLine}

\* What the chat endpoint answers to the requests of the call.
StreamAnswers == {[i \in 1..MaxRetries |-> o] : o \in ChatOutcome}

InitStream ==
    /\ pc = "stream"
    /\ config_allow_network = TRUE
    /\ config_allow_system_tools = TRUE
    /\ fs = OldFiles
    /\ appended = << >>
    /\ InitLocals
    /\ InitClient
    /\ InitHost
    /\ retry = RetryStart
    /\ registry_call = NoRegistryCall
    /\ outcomes \in StreamAnswers
    /\ session_calls = 0
    /\ \E lines \in StreamsOf(MaxStreamLines) :
          stream = [NoStream EXCEPT !.lines = lines, !.status = "new"]

streamFrame ==
    <<pc, configVars, loopLocals, max_history, fs, appended, outcomes,
      hostVars, registry_call, session_calls>>

\* Lines 501-531: the user message is added and the request is sent; when
\* the request fails the error text is yielded and the generator ends
\* (through the finally clause, with nothing to save).
ChatStreamOpen ==
    /\ pc = "stream"
    /\ stream.status = "new"
    /\ retry' = _post_with_retries(outcomes)
    /\ LET h == AddMessage(conversation_history, max_history, "user",
                           PlainText(<<TXT>>))
       IN IF retry'.status = "raised"
          THEN /\ stream' = [stream EXCEPT
                                !.yielded = <<Yield(0, RequestErrorText)>>,
                                !.status = "closed"]
               /\ conversation_history' =
                      SaveReply(h, max_history, stream.full_response)
          ELSE /\ stream' = [stream EXCEPT !.status = "open"]
               /\ conversation_history' = h
    /\ UNCHANGED streamFrame

\* Lines 534-557: one line of response.iter_lines(). An exception other
\* than JSONDecodeError leaves the loop for the handler of lines 581-585,
\* which yields the error text, and the finally clause.
ChatStreamLine ==
    /\ pc = "stream"
    /\ stream.status = "open"
    /\ stream.next <= Len(stream.lines)
    /\ LET step == StreamStep(stream.lines[stream.next], stream.next)
       IN IF step.raised
          THEN /\ stream' = [stream EXCEPT
                                !.yielded = Append(@, Yield(stream.next,
                                                            RequestErrorText)),
                                !.next = @ + 1,
                                !.status = "closed"]
               /\ conversation_history' =
                      SaveReply(conversation_history, max_history,
                                stream.full_response)
          ELSE /\ stream' = [stream EXCEPT
                                !.yielded = @ \o step.yields,
                                !.full_response =
                                    @ \o [k \in 1..Len(step.yields) |->
                                              step.yields[k].token],
                                !.next = @ + 1]
               /\ UNCHANGED conversation_history
    /\ UNCHANGED <<streamFrame, retry>>

\* The response has no more lines: the finally clause, lines 587-591.
ChatStreamEnd ==
    /\ pc = "stream"
    /\ stream.status = "open"
    /\ stream.next > Len(stream.lines)
    /\ stream' = [stream EXCEPT !.status = "closed"]
    /\ conversation_history' =
           SaveReply(conversation_history, max_history, stream.full_response)
    /\ UNCHANGED <<streamFrame, retry>>

NextStream == ChatStreamOpen \/ ChatStreamLine \/ ChatStreamEnd

SpecStream == InitStream /\ [][NextStream]_vars

----------------------------------------------------------------------------
(* A turn during which the host switches a permission off: config is a      *)
(* module-level object (config.py, line 202) whose fields any thread of the  *)
(* host may assign while chat_with_tools runs.                               *)

\* config.ollama.allow_system_tools = False, or config.ollama.allow_network
\* = False, assigned by the host.
DisableSystemTools ==
    /\ config_allow_system_tools
    /\ config_allow_system_tools' = FALSE
    /\ UNCHANGED <<pc, config_allow_network, loopLocals, conversation_history,
                   fs, sideVars, hostVars>>

DisableNetwork ==
    /\ config_allow_network
    /\ config_allow_network' = FALSE
    /\ UNCHANGED <<pc, config_allow_system_tools, loopLocals,
                   conversation_history, fs, sideVars, hostVars>>

\* The replies of the chat endpoint in these turns: plain text or one of
\* the two directives, or a connection error for every request of the call.
FlagsAnswers ==
    {[i \in 1..MaxRetries |-> o] : o \in {c \in ChatOutcome : c.code # 503}}
FlagsBodies == [kind : {"content"}, text : {<<TXT>>, SysGetTime, FetchX}]

\* The call of chat made by chat_with_tools.
FlagsDispatch == DispatchWith(FlagsAnswers, FlagsBodies)

NextFlags ==
    \/ StartTurn
    \/ FlagsDispatch
    \/ Inspect
    \/ ExecuteSystem
    \/ ExecuteFetch
    \/ DisableSystemTools
    \/ DisableNetwork

SpecFlags == Init /\ [][NextFlags]_vars

----------------------------------------------------------------------------
(* One thread calling chat, chat_with_tools, clear_history and               *)
(* set_system_prompt one after the other, on the client __init__ made. A     *)
(* session opens with up to SessionPrefix chats that got a plain reply, and  *)
(* goes on with up to MaxCalls calls of any kind.                            *)

\* What the chat endpoint does in a session: every request of a call gets a
\* response or every request gets a connection error; the reply is plain
\* text or a system tool directive.
SessionAnswers ==
    {[i \in 1..MaxRetries |-> o] : o \in {c \in ChatOutcome : c.code # 503}}
SessionBodies == [kind : {"content"}, text : {<<TXT>>, SysGetTime}]

\* The history after k calls of chat that each got the reply TXT.
RECURSIVE AfterChats(_)
AfterChats(k) ==
    IF k = 0 THEN HistoryAfterInit
    ELSE chat(AfterChats(k - 1), MaxHistoryDefault, PlainText(<<TXT>>),
              _post_with_retries([i \in 1..MaxRetries |-> [kind |-> "http", code |-> 200]]),
              [kind |-> "content", text |-> <<TXT>>]).history

InitSession ==
    /\ pc = "idle"
    /\ config_allow_network = TRUE
    /\ config_allow_system_tools = TRUE
    /\ fs = OldFiles
    /\ appended = << >>
    /\ InitLocals
    /\ max_history = MaxHistoryDefault
    /\ InitRetry
    /\ InitHost
    /\ \E k \in 0..SessionPrefix : conversation_history = AfterChats(k)

sessionFrame ==
    <<pc, configVars, loopLocals, max_history, fs, appended, retry, outcomes,
      hostVars, registry_call, stream>>

\* chat(message, stream=False), consumed to its end.
SessionChat ==
    /\ pc = "idle"
    /\ session_calls < MaxCalls
    /\ \E outs \in SessionAnswers, body \in SessionBodies :
          conversation_history' =
              chat(conversation_history, max_history, PlainText(<<TXT>>),
                   _post_with_retries(outs), body).history
    /\ session_calls' = session_calls + 1
    /\ UNCHANGED sessionFrame

\* chat_with_tools(message, max_tool_iterations=n) is called.
SessionTurn ==
    /\ session_calls < MaxCalls
    /\ \E message \in Utterance, n \in 0..1 : BeginTurn(message, n)

\* The call of chat made by chat_with_tools.
SessionDispatch == DispatchWith(SessionAnswers, SessionBodies)

\* chat_with_tools returns; its locals are gone.
SessionReturn ==
    /\ pc = "done"
    /\ pc' = "idle"
    /\ max_tool_iterations' = 0
    /\ allow_system_tools' = TRUE
    /\ iteration' = 0
    /\ current_user_message' = PlainText(<< >>)
    /\ final_reply' = << >>
    /\ assistant_reply' = << >>
    /\ system_tool_params' = None
    /\ tool_params' = None
    /\ returned' = << >>
    /\ dispatches' = 0
    /\ http_posts' = 0
    /\ fetch_requests' = 0
    /\ tool_calls' = << >>
    /\ turn_log' = << >>
    /\ last_call' = NoCall
    /\ tool_results' = << >>
    /\ last_fetch' = NoFetch
    /\ session_calls' = session_calls + 1
    /\ UNCHANGED <<conversation_history, configVars, max_history, fs, appended,
                   retry, outcomes, hostVars, registry_call, stream>>

\* clear_history()
SessionClear ==
    /\ pc = "idle"
    /\ session_calls < MaxCalls
    /\ conversation_history' = clear_history(conversation_history)
    /\ session_calls' = session_calls + 1
    /\ UNCHANGED sessionFrame

\* set_system_prompt(prompt)
SessionSetPrompt ==
    /\ pc = "idle"
    /\ session_calls < MaxCalls
    /\ \E prompt \in Prompts :
          conversation_history' =
              set_system_prompt(conversation_history, max_history, prompt)
    /\ session_calls' = session_calls + 1
    /\ UNCHANGED sessionFrame

NextSession ==
    \/ SessionChat
    \/ SessionTurn
    \/ SessionDispatch
    \/ Inspect
    \/ ExecuteSystem
    \/ SessionReturn
    \/ SessionClear
    \/ SessionSetPrompt

SpecSession == InitSession /\ [][NextSession]_vars

----------------------------------------------------------------------------
(* set_system_prompt on any history _add_message can make: with no system    *)
(* message, with one, with several, at the limit or below it.                *)

\* The prompts given to set_system_prompt: as in AddMessageCall a content is
\* a number, and these are the contents no _add_message call has.
PromptContents == {0 - 1, 0 - 2}

\* set_system_prompt(prompt), lines 806-823.
SetPromptCall ==
    /\ pc = "history"
    /\ \E prompt \in PromptContents :
          conversation_history' =
              set_system_prompt(conversation_history, max_history, prompt)
    /\ UNCHANGED <<pc, max_history, configVars, loopLocals, fs, retry, outcomes,
                   appended, hostVars, registry_call, stream,
                   session_calls>>

NextPrompt == AddMessageCall \/ SetPromptCall

SpecPrompt == InitHistory /\ [][NextPrompt]_vars

----------------------------------------------------------------------------
(* Helpers of the claims. *)

\* The reply the i-th chat call of the turn gave holds a directive the parser
\* finds.
GotSystemDirective(i) ==
    /\ turn_log[i].replies # << >>
    /\ ~IsNone(_parse_system_tool(turn_log[i].replies[1]))

GotFetchOnly(i) ==
    /\ turn_log[i].replies # << >>
    /\ IsNone(_parse_system_tool(turn_log[i].replies[1]))
    /\ ~IsNone(_parse_tool_fetch(turn_log[i].replies[1]))

\* The reply of the last chat call of the turn.
LastReply ==
    IF turn_log # << >> /\ turn_log[Len(turn_log)].replies # << >>
    THEN turn_log[Len(turn_log)].replies[1]
    ELSE <<"no reply">>

\* A measure of what is left of a call of chat_with_tools.
Rank ==
    CASE pc = "idle"        -> 3 * (MaxIter + 1) + 1
      [] pc = "dispatch"    -> 3 * (max_tool_iterations + 1 - dispatches)
      [] pc = "inspect"     -> 3 * (max_tool_iterations + 1 - dispatches) + 2
      [] pc = "exec_system" -> 3 * (max_tool_iterations + 1 - dispatches) + 1
      [] pc = "exec_fetch"  -> 3 * (max_tool_iterations + 1 - dispatches) + 1
      [] OTHER              -> 0

----------------------------------------------------------------------------
(* The claims. *)

\* C1: one call of chat_with_tools calls chat at most max_tool_iterations + 1
\* times and then returns: the count never passes the bound, a call that has
\* not returned can always take a step, and every step lowers a measure that
\* is never negative.
C1_BoundedDispatchesThenReturn ==
    /\ [](dispatches <= max_tool_iterations + 1)
    /\ [](pc # "done" => ENABLED Next)
    /\ [][Rank' < Rank /\ Rank' >= 0]_vars

C1_Witness ==
    /\ pc = "done"
    /\ max_tool_iterations = 2
    /\ dispatches = max_tool_iterations + 1

\* C2: with system tools permitted, when every chat call of the turn got a
\* reply with a TOOL:SYSTEM directive, the call that has returned made exactly
\* max_tool_iterations + 1 chat calls and returned the last reply with the
\* iteration-limit marker appended.
C2_AlwaysSystemDirective ==
    ( /\ pc = "done"
      /\ turn_log # << >>
      /\ config_allow_system_tools
      /\ \A i \in 1..Len(turn_log) : GotSystemDirective(i) )
    => /\ dispatches = max_tool_iterations + 1
       /\ Len(turn_log) = max_tool_iterations + 1
       /\ returned = Append(LastReply, IterationLimitMark)

C2_Witness ==
    /\ pc = "done"
    /\ max_tool_iterations = 2
    /\ config_allow_system_tools
    /\ Len(turn_log) = 3
    /\ \A i \in 1..Len(turn_log) : GotSystemDirective(i)
    /\ returned = Append(LastReply, IterationLimitMark)

\* C3: a call of _post_with_retries sends at most 3 requests, and answered
\* 503, 503, 200 it returns the 200 response at its third request.
Http(code) == [kind |-> "http", code |-> code]

C3_AtMostThreeRequests ==
    /\ retry.requests <= 3
    /\ ( /\ outcomes[1] = Http(503)
         /\ outcomes[2] = Http(503)
         /\ outcomes[3] = Http(200)
         /\ retry.requests = 3 )
       => (retry.status = "returned" /\ retry.resp = 200)
    /\ ( /\ outcomes[1] = Http(503)
         /\ outcomes[2] = Http(503)
         /\ outcomes[3] = Http(200)
         /\ retry.status # "loop" )
       => retry.requests = 3

C3_Witness ==
    /\ outcomes[1] = Http(503)
    /\ outcomes[2] = Http(503)
    /\ outcomes[3] = Http(200)
    /\ retry.status = "returned"
    /\ retry.resp = 200
    /\ retry.requests = 3

\* C4: a 4xx status ends the call: no request follows the one it answered.
C4_ClientErrorIsTerminal ==
    \A k \in 1..retry.requests :
        (outcomes[k].kind = "http" /\ 400 <= outcomes[k].code /\ outcomes[k].code < 500)
            => retry.requests = k

\* C5: with allow_network false, a reply with a TOOL:FETCH directive and no
\* TOOL:SYSTEM directive is where the turn ends: the call returns that reply
\* with the denial notice appended, and the turn has sent no fetch request.
C5_NetworkDenied ==
    ~config_allow_network
    => /\ fetch_requests = 0
       /\ (turn_log # << >> /\ GotFetchOnly(Len(turn_log)))
          => /\ pc \in {"inspect", "done"}
             /\ pc = "done" => returned = Append(LastReply, NetworkDeniedNotice)

C5_Witness ==
    /\ ~config_allow_network
    /\ pc = "done"
    /\ Len(turn_log) >= 2
    /\ LastReply = FetchX
    /\ returned = Append(FetchX, NetworkDeniedNotice)
    /\ fetch_requests = 0

\* C6: with allow_system_tools false, a reply in which a system call is found
\* is where the turn ends: the call returns that reply with the
\* permission-denied notice appended and no capability is entered.
C6_SystemToolsDenied ==
    (~config_allow_system_tools /\ turn_log # << >>)
    => /\ tool_calls = << >>
       /\ pc # "exec_system"
       /\ GotSystemDirective(Len(turn_log))
          => /\ pc \in {"inspect", "done"}
             /\ pc = "done" => returned = Append(LastReply, SystemDeniedNotice)

C6_Witness ==
    /\ ~config_allow_system_tools
    /\ pc = "done"
    /\ Len(turn_log) >= 2
    /\ LastReply = SysWriteD
    /\ returned = Append(SysWriteD, SystemDeniedNotice)
    /\ tool_calls = << >>
    /\ fs = OldFiles

\* A path of the C drive: the prefix C:\ in either case of the letter.
ProtectedPath(path) == path.drive \in {"C", "c"} /\ path.sep = "\\"

TargetsProtected(call) ==
    /\ call.entered
    /\ call.params.function \in {"write_file", "delete_file"}
    /\ ProtectedPath(call.params.params.file_path)

\* C7 as it was stated: a write_file or delete_file call on a protected path
\* returns requires_confirmation, the gateway hands the result on unchanged and
\* the file system is as before.
C7_Original ==
    TargetsProtected(last_call)
    => /\ last_call.result.requires_confirmation
       /\ last_call.result = last_call.cap
       /\ fs = last_call.fs_before

\* C7 as amended: write_file on a protected path, and delete_file on a
\* protected path that exists, return requires_confirmation; delete_file on a
\* protected path that does not exist returns a plain failure; in each case
\* the gateway hands the result on unchanged and the file system is as before.
C7_ProtectedPathUntouched ==
    TargetsProtected(last_call)
    => LET path   == last_call.params.params.file_path
           absent == last_call.fs_before[path] = "absent"
           delete == last_call.params.function = "delete_file"
       IN /\ last_call.result.requires_confirmation = ~(delete /\ absent)
          /\ ~last_call.result.success
          /\ last_call.result = last_call.cap
          /\ fs = last_call.fs_before

C7_Witness ==
    /\ TargetsProtected(last_call)
    /\ last_call.params.function = "write_file"
    /\ last_call.params.params.file_path.drive = "c"
    /\ last_call.result.requires_confirmation
    /\ fs = last_call.fs_before

\* C8: once more than max_history messages were appended, with max_history at
\* least the number of system messages, the history is every system message
\* and the max_history - #system latest other messages, in insertion order.
LastK(seq, k) == SubSeq(seq, Len(seq) - k + 1, Len(seq))

C8_KeepsLatest ==
    LET system_all == SelectSeq(appended, IsSystemMsg)
        other_all  == SelectSeq(appended, IsOtherMsg)
        k          == max_history - Len(system_all)
    IN (Len(appended) > max_history /\ k >= 0)
       => /\ SelectSeq(conversation_history, IsSystemMsg) = system_all
          /\ SelectSeq(conversation_history, IsOtherMsg) = LastK(other_all, k)

\* The text holds the segment.
Contains(text, seg) ==
    \E i \in 1..Len(text) :
        i + Len(seg) - 1 <= Len(text) /\ SubSeq(text, i, i + Len(seg) - 1) = seg

\* C9: a reply that contains TOOL:SYSTEM {"function":"get_time"} is parsed to
\* the system call get_time with no params; a reply that contains TOOL:SYSTEM
\* followed by invalid JSON is returned as the final answer and no capability
\* is entered.
C9_ParsesGetTime ==
    pc # "inspect"
    => /\ Contains(assistant_reply, SysGetTime)
          => /\ ~IsNone(system_tool_params)
             /\ system_tool_params.function = "get_time"
             /\ "params" \notin DOMAIN system_tool_params
       /\ Contains(assistant_reply, SysUnclosed)
          => /\ pc = "done"
             /\ returned = assistant_reply
             /\ tool_calls = << >>

\* C10: a reply that holds both directives, in either order, has its system
\* call run and its fetch left out.
C10_SystemFirst ==
    ( /\ pc # "inspect"
      /\ config_allow_network
      /\ config_allow_system_tools
      /\ assistant_reply \in {SysGetTime \o FetchX, FetchX \o SysGetTime} )
    => /\ ~IsNone(system_tool_params)
       /\ pc # "exec_fetch"
       /\ fetch_requests = 0
       /\ pc # "exec_system" => tool_calls = <<"get_time">>

\* The marker at position i is followed by a complete JSON object that has the
\* function key.
WellFormedCallAt(text, i) ==
    /\ text[i] = SYS
    /\ i + 1 <= Len(text)
    /\ text[i + 1] = LB
    /\ \E j \in (i + 2)..Len(text) :
          /\ text[j] = RB
          /\ \A k \in (i + 2)..(j - 1) : text[k] \in MemberTok
          /\ \E k \in (i + 2)..(j - 1) : text[k] \in FnTok

\* The marker is in the text and, wherever it is, what follows it is not a
\* JSON object with the function key.
MalformedSystemCall(text) ==
    /\ \E i \in 1..Len(text) : text[i] = SYS
    /\ \A i \in 1..Len(text) : ~WellFormedCallAt(text, i)

StartsWith(text, directive) ==
    Len(text) >= Len(directive) /\ SubSeq(text, 1, Len(directive)) = directive

\* C12: a reply made of a marker, a valid directive object and then any
\* further text, braces included, yields that directive: the object that
\* follows the marker is the one extracted.
C12_FirstCompleteObject ==
    pc # "inspect"
    => /\ StartsWith(assistant_reply, SysGetTime)
          => system_tool_params = [function |-> "get_time"]
       /\ ( /\ StartsWith(assistant_reply, FetchX)
            /\ \A i \in 1..Len(assistant_reply) : assistant_reply[i] # SYS )
          => tool_params = [url |-> "http://x"]

\* The [TOOL_RESULT] messages of a history, in order.
IsToolResultMsg(m) == m.role = "user" /\ m.content.tool # "none"

ToolResultsIn(history) ==
    LET picked == SelectSeq(history, IsToolResultMsg)
    IN [i \in 1..Len(picked) |-> picked[i].content]

\* C13: every directive the loop ran has its result put back: when the turn
\* has ended, the [TOOL_RESULT] messages in the history are the results of
\* the directives the turn ran, one for each, in order.
C13_ResultsReinjected ==
    pc = "done" => ToolResultsIn(conversation_history) = tool_results

\* The last directive the turn ran, when its result has not been given to a
\* chat call yet.
LastToolResult == tool_results[Len(tool_results)]

JustExecuted ==
    /\ tool_results # << >>
    /\ Len(ToolResultsIn(conversation_history)) < Len(tool_results)

\* C14: a capability failure (unknown function, exception in a capability,
\* fetch error) does not end the turn: it is made into a result with success
\* false and an error text, the file system is untouched for an unknown
\* function, and the loop goes on to the next chat call with that result as
\* the pending user message.
C14_FailureFedBack ==
    (JustExecuted /\ ~LastToolResult.result.success)
    => /\ LastToolResult.result.error # ""
       /\ current_user_message = LastToolResult
       /\ pc = "dispatch"
       /\ (LastToolResult.tool = "system" /\ last_call.result.error = "unknown function")
          => (~last_call.entered /\ fs = last_call.fs_before)

\* C15: a chat call whose request failed after the retries is the last chat
\* call of the turn: it yields the inline error text, nothing is run after
\* it, and the turn returns a text that starts with the error prefix.
C15_TransportFailureInline ==
    \A i \in 1..Len(turn_log) :
        turn_log[i].post = "raised"
        => /\ i = Len(turn_log)
           /\ dispatches = i
           /\ turn_log[i].replies # << >>
           /\ turn_log[i].replies[1][1] = ERR
           /\ Len(tool_results) = i - 1
           /\ pc \in {"inspect", "done"}
           /\ pc = "done" => (returned = turn_log[i].replies[1] /\ returned[1] = ERR)

C15_Witness ==
    /\ pc = "done"
    /\ Len(turn_log) = 2
    /\ turn_log[1].post = "returned"
    /\ turn_log[2].post = "raised"
    /\ http_posts >= MaxRetries + 1
    /\ returned = RequestErrorText

\* C16: at most one turn is in flight on the client at any time, and a send
\* that arrives while a worker runs starts no worker and no call of
\* chat_with_tools.
C16_OneTurnInFlight ==
    /\ [](in_flight <= 1)
    /\ [][(SendToLlm /\ current_worker = "running")
            => (last_send' = "rejected" /\ UNCHANGED <<workers_started, in_flight,
                                                       pc, loopLocals,
                                                       conversation_history>>)]_vars

C16_Witness ==
    /\ last_send = "rejected"
    /\ current_worker = "running"
    /\ pc = "inspect"
    /\ workers_started = 2
    /\ in_flight = 1

\* C17: while a turn is in flight the history is changed by no thread other
\* than the one that runs the agent loop.
C17_OnlyLoopThreadWrites == foreign_writers = {}

\* C18: clear_history removes every message that is not a system message and
\* leaves every system message where it was, with its content.
C18_ClearKeepsSystem ==
    [][PanelClearHistory
        => /\ \A i \in 1..Len(conversation_history) :
                 IsSystemMsg(conversation_history[i])
                 => /\ i <= Len(conversation_history')
                    /\ conversation_history'[i] = conversation_history[i]
           /\ \A i \in 1..Len(conversation_history') :
                 IsSystemMsg(conversation_history'[i])
           /\ Len(conversation_history')
                 = Cardinality({i \in 1..Len(conversation_history) :
                                  IsSystemMsg(conversation_history[i])})]_vars

\* A chat call has added messages, the system prompt was replaced, and the
\* history is the system message alone again.
C18_Witness ==
    /\ async_calls = 1
    /\ workers_started = 1
    /\ current_worker = "finished"
    /\ conversation_history = <<Message("system", PlainText(<<"new prompt">>))>>

\* The request of a registry call failed: the retries ended with an exception.
RequestFailed(outs) == RunRetries(RetryStart, outs).status = "raised"

\* A line of a pull response that makes the loop of pull_model raise.
BadPullLine(l) == l \in {"completed_without_total", "not_a_dict", "stream_error"}

\* C19: no exception leaves list_models, is_available or pull_model: on any
\* failure list_models returns the empty list and is_available returns
\* FALSE (and never anything but a boolean), and pull_model yields an error
\* line as its last line.
C19_RegistryNeverRaises ==
    LET c == registry_call
    IN /\ ~c.result.raised
       /\ c.op = "list_models"
          => /\ (RequestFailed(c.outs) \/ c.body \notin {"models", "no_models_key"})
                => c.result.value = << >>
             /\ (~RequestFailed(c.outs) /\ c.body = "models")
                => c.result.value # << >>
       /\ c.op = "is_available"
          => /\ c.result.value \in BOOLEAN
             /\ RequestFailed(c.outs) => c.result.value = FALSE
             /\ c.result.value
                => \E k \in 1..MaxRetries : c.outs[k] = [kind |-> "http", code |-> 200]
       /\ c.op = "pull_model"
          => LET n == Len(c.result.value)
                 failed == \/ RequestFailed(c.outs)
                           \/ \E i \in 1..Len(c.lines) : BadPullLine(c.lines[i])
             IN /\ failed => (n >= 1 /\ c.result.value[n][1] = ERR)
                /\ \A i \in 1..(n - 1) : c.result.value[i][1] # ERR
                /\ ~failed => \A i \in 1..n : c.result.value[i][1] # ERR

C19_Witness ==
    /\ registry_call.op = "pull_model"
    /\ registry_call.lines = <<"progress", "completed_without_total">>
    /\ ~registry_call.result.raised
    /\ registry_call.result.value
          = << <<"status", "completed/total">>, ErrorLine("KeyError") >>

\* The outcome is one the policy retries: a 5xx status, a connection error
\* or a timeout.
Retryable(o) == IF o.kind = "http" THEN 500 <= o.code /\ o.code < 600 ELSE TRUE

\* The exception an outcome stands for.
ErrorOf(o) == [kind |-> IF o.kind = "http" THEN "HTTPError" ELSE o.kind, code |-> o.code]

\* C20: when each of the three requests fails with a retryable outcome, the
\* call ends after the third request and raises the error of the third
\* request, not that of an earlier one.
C20_LastErrorSurfaced ==
    ( /\ \A k \in 1..3 : Retryable(outcomes[k])
      /\ retry.requests = 3 )
    => /\ retry.status \in {"loop", "raised"}
       /\ ~RetryLoopGuard(retry)
       /\ retry.last_exc.at = 3
       /\ [kind |-> retry.last_exc.kind, code |-> retry.last_exc.code]
             = ErrorOf(outcomes[3])

C20_Witness ==
    /\ outcomes[1] = [kind |-> "http", code |-> 503]
    /\ outcomes[2] = [kind |-> "ConnectionError", code |-> 0]
    /\ outcomes[3] = [kind |-> "Timeout", code |-> 0]
    /\ retry.status = "raised"
    /\ retry.requests = 3
    /\ retry.last_exc = Exc("Timeout", 0, 3)

\* C21: fed the same outcomes, _get_with_retries and _post_with_retries send
\* the same number of requests and end the same way: the same response is
\* returned, or the same exception, made by the same request, is raised.
C21_GetLikePost ==
    (pc = "post" /\ retry.status # "loop")
    => LET get == _get_with_retries(outcomes)
       IN /\ get.requests = retry.requests
          /\ get.status = retry.status
          /\ get.resp = retry.resp
          /\ get.last_exc = retry.last_exc

C21_Witness ==
    /\ pc = "post"
    /\ outcomes[1] = [kind |-> "http", code |-> 503]
    /\ outcomes[2] = [kind |-> "Timeout", code |-> 0]
    /\ outcomes[3] = [kind |-> "http", code |-> 404]
    /\ retry.status = "raised"
    /\ _get_with_retries(outcomes).last_exc = Exc("HTTPError", 404, 3)

\* The contents of the first n lines that parse to an object carrying
\* message.content, with the numbers of their lines, in line order.
RECURSIVE ContentsOf(_, _)
ContentsOf(lines, n) ==
    IF n = 0 THEN << >>
    ELSE IF lines[n].kind = "object" /\ lines[n].has
    THEN Append(ContentsOf(lines, n - 1), Yield(n, lines[n].content))
    ELSE ContentsOf(lines, n - 1)

\* The lines read so far are JSON objects, empty lines or lines that fail
\* to parse.
ObjectsAndMalformed(lines, n) == \A k \in 1..n : lines[k].kind # "not_object"

C23_NothingAfterDone ==
    \A k \in 1..Len(stream.yielded) :
       LET y == stream.yielded[k]
       IN \A j \in 1..y.line : ~stream.lines[j].done

\* The number of system messages of a history.
SystemCount(history) == Len(SelectSeq(history, IsSystemMsg))

\* The history h2 is h1 with the content of message i replaced by prompt.
ReplacedAt(h1, h2, i, prompt) ==
    /\ Len(h2) = Len(h1)
    /\ h2[i] = Message("system", prompt)
    /\ \A k \in 1..Len(h1) : k # i => h2[k] = h1[k]

\* C24: a call of set_system_prompt(prompt) on a history with a system
\* message replaces the content of the first one and nothing else; on a
\* history with none it adds one. After the call the first system message
\* carries prompt, and the number of system messages is what it was, or one
\* when there was none. Messages added later do not change the first system
\* message, so it carries the text of the latest call.
C24_PromptReplacedInPlace ==
    [][ LET h1 == conversation_history
            h2 == conversation_history'
        IN /\ SetPromptCall =>
                 /\ FirstSystem(h2) # 0
                 /\ \E prompt \in PromptContents :
                       /\ h2[FirstSystem(h2)].content = prompt
                       /\ IF FirstSystem(h1) # 0
                          THEN ReplacedAt(h1, h2, FirstSystem(h1), prompt)
                          ELSE /\ SystemCount(h2) = 1
                               /\ SelectSeq(h2, IsOtherMsg)
                                     = SliceLast(h1, Len(SelectSeq(h2, IsOtherMsg)))
                 /\ SystemCount(h2) = (IF SystemCount(h1) = 0 THEN 1
                                        ELSE SystemCount(h1))
           /\ (AddMessageCall /\ FirstSystem(h1) # 0) =>
                 /\ FirstSystem(h2) # 0
                 /\ h2[FirstSystem(h2)] = h1[FirstSystem(h1)]
      ]_vars

\* Both branches have been taken: the prompt was set on a history without a
\* system message and then replaced by another call.
C24_Witness ==
    /\ pc = "history"
    /\ Len(appended) = 2
    /\ appended[1].role = "user"
    /\ appended[2].role = "assistant"
    /\ max_history = 3
    /\ Len(conversation_history) = 3
    /\ SystemCount(conversation_history) = 1
    /\ conversation_history[3] = Message("system", 0 - 2)

\* The text t is a prefix of the text u.
IsPrefix(t, u) == t.len = 0 \/ (t.of = u.of /\ t.len <= u.len)

\* The content is the [TOOL_RESULT] text of a fetch that got a response.
IsFetchResult(content) == content.tool = "fetch" /\ content.status_code # 0

\* The last fetch of the turn got a response and its [TOOL_RESULT] message
\* is the latest one made.
FetchJustAnswered ==
    /\ last_fetch # NoFetch
    /\ tool_results # << >>
    /\ IsFetchResult(tool_results[Len(tool_results)])

\* The bodies of the fetch results the history holds are within the limit.
FetchBodiesBounded ==
    \A k \in 1..Len(conversation_history) :
       IsFetchResult(conversation_history[k].content)
          => conversation_history[k].content.body.len <= BodyLimit

\* C25 as stated: the body text of the [TOOL_RESULT] message of a fetch has
\* at most 4000 characters and is a prefix of the response body.
C25_Original ==
    /\ FetchBodiesBounded
    /\ FetchJustAnswered =>
          LET placed == tool_results[Len(tool_results)].body
          IN /\ placed = last_fetch.placed
             /\ placed.len <= BodyLimit
             /\ IsPrefix(placed, last_fetch.response)

\* C25: the body text of the [TOOL_RESULT] message of a fetch has at most
\* 4000 characters and is a prefix of the body text _perform_fetch returned:
\* the text of the response, or, for an application/json response that
\* parses, the text json.dumps makes of the parsed value. It is a prefix of
\* the response body whenever the two texts are the same.
C25_BodyBounded ==
    /\ FetchBodiesBounded
    /\ FetchJustAnswered =>
          LET placed == tool_results[Len(tool_results)].body
          IN /\ placed = last_fetch.placed
             /\ placed.len <= BodyLimit
             /\ IsPrefix(placed, last_fetch.returned)
             /\ last_fetch.returned = last_fetch.response
                   => IsPrefix(placed, last_fetch.response)

\* A response longer than the limit was cut to the limit and the message
\* is in the history.
C25_Witness ==
    /\ FetchJustAnswered
    /\ last_fetch.response.len = BodyLimit + 1
    /\ last_fetch.placed = TextOf("resp.text", BodyLimit)
    /\ \E k \in 1..Len(conversation_history) :
          /\ IsFetchResult(conversation_history[k].content)
          /\ conversation_history[k].content.body = last_fetch.placed

\* C26: in a session of one thread the history never holds more than
\* max_history (20) messages.
C26_HistoryBounded ==
    /\ max_history = MaxHistoryDefault
    /\ Len(conversation_history) <= max_history

\* A turn with a tool call added its messages to a full history, which
\* dropped its oldest ones: of the user and assistant messages that
\* alternate, an assistant message is now the oldest.
C26_Witness ==
    /\ session_calls >= 1
    /\ Len(conversation_history) = MaxHistoryDefault
    /\ conversation_history[2].role = "assistant"
    /\ conversation_history[MaxHistoryDefault - 1].content.tool = "system"
    /\ conversation_history[MaxHistoryDefault].role = "assistant"

\* C27: in a session of one thread the history has exactly one system
\* message and it is the first element.
C27_OneSystemFirst ==
    /\ conversation_history # << >>
    /\ IsSystemMsg(conversation_history[1])
    /\ \A k \in 2..Len(conversation_history) : ~IsSystemMsg(conversation_history[k])

\* The prompt was replaced, and the history was filled and trimmed.
C27_Witness ==
    /\ session_calls = MaxCalls
    /\ Len(conversation_history) = MaxHistoryDefault
    /\ conversation_history[1] = Message("system", PlainText(<<"new prompt">>))
    /\ conversation_history[2].role = "assistant"
    /\ \E k \in 2..MaxHistoryDefault :
          conversation_history[k].content.tool = "system"

\* The history h2 is h1 followed by the messages more.
Extends(h1, h2, more) == h2 = h1 \o more

\* C28: a Dispatch adds the pending user message to the history. When its
\* request fails the user message stays and no assistant message is added,
\* so the history ends with a user message; an assistant message is added,
\* after the user message, only when the reply text is not empty and does
\* not start with the error prefix, and it carries that text. (The steps
\* that count one more call of chat are the Dispatch steps.)
C28_FailedDispatchKeepsUser ==
    [][ dispatches' = dispatches + 1 =>
          LET h1     == conversation_history
              h2     == conversation_history'
              entry  == turn_log'[Len(turn_log')]
              user   == Message("user", current_user_message)
              reply  == entry.replies[1]
          IN /\ entry.post = "raised" =>
                   /\ Extends(h1, h2, <<user>>)
                   /\ entry.replies = <<RequestErrorText>>
             /\ \/ Extends(h1, h2, <<user>>)
                \/ /\ entry.post = "returned"
                   /\ entry.replies # << >>
                   /\ reply # << >>
                   /\ reply[1] # ERR
                   /\ Extends(h1, h2, <<user, Message("assistant", PlainText(reply))>>)
      ]_vars

\* The second request of a turn failed: the tool result sent as the user
\* message is the last message of the history, after the first exchange.
C28_Witness ==
    /\ pc = "done"
    /\ Len(turn_log) = 2
    /\ turn_log[1].post = "returned"
    /\ turn_log[2].post = "raised"
    /\ returned = RequestErrorText
    /\ Len(conversation_history) = 4
    /\ conversation_history[3].role = "assistant"
    /\ conversation_history[4] = Message("user", current_user_message)
    /\ current_user_message.tool = "system"

\* The turn has seen allow_network false: at line 442, where it returns with
\* the notice, or inside _perform_fetch, whose PermissionError becomes the
\* tool result.
NetworkSeenFalse ==
    \/ /\ pc = "done"
       /\ returned # << >>
       /\ returned[Len(returned)] = NetworkDeniedNotice
    \/ \E k \in 1..Len(tool_results) :
          /\ tool_results[k].tool = "fetch"
          /\ tool_results[k].result.error = "PermissionError"

\* C29: allow_system_tools is read when the turn starts and not again: the
\* local keeps its value whatever the host assigns, a system directive of
\* any iteration is executed or refused by the local alone, and a directive
\* that was let through is executed. allow_network is read at every
\* iteration and inside _perform_fetch: a fetch directive met while the flag
\* is false ends the turn with the notice, a request is sent only while the
\* flag is true, and none is sent once the turn has seen the flag false.
\* (A step that leaves "inspect" is an Inspect step, one that leaves
\* "exec_system" an ExecuteSystem step.)
C29_FlagsSampledDifferently ==
    /\ [](pc = "exec_system" => ENABLED ExecuteSystem)
    /\ [][ /\ pc # "idle" => allow_system_tools' = allow_system_tools
           /\ (pc = "inspect" /\ pc' # pc /\ ~IsNone(system_tool_params')) =>
                 IF allow_system_tools
                 THEN pc' = "exec_system"
                 ELSE pc' = "done" /\ returned' = Append(final_reply, SystemDeniedNotice)
           /\ (pc = "exec_system" /\ pc' # pc) =>
                 /\ last_call'.params = system_tool_params
                 /\ Len(tool_results') = Len(tool_results) + 1
           /\ ( /\ pc = "inspect"
                /\ pc' # pc
                /\ IsNone(system_tool_params')
                /\ ~IsNone(tool_params')
                /\ ~config_allow_network ) =>
                 /\ pc' = "done"
                 /\ returned' = Append(final_reply, NetworkDeniedNotice)
           /\ fetch_requests' # fetch_requests =>
                 /\ config_allow_network
                 /\ ~NetworkSeenFalse
         ]_vars

\* The host switched both flags off during a turn that started with both
\* on: _perform_fetch refused the fetch of the second iteration, and the
\* system directive of the third iteration is about to be executed.
C29_Witness ==
    /\ pc = "exec_system"
    /\ iteration = 2
    /\ allow_system_tools
    /\ ~config_allow_system_tools
    /\ ~config_allow_network
    /\ Len(tool_calls) = 1
    /\ Len(tool_results) = 2
    /\ tool_results[2].result.error = "PermissionError"
    /\ fetch_requests = 0

\* What a turn does outside its own locals: the history, the requests sent,
\* the capabilities entered and the file system.
turnEffects ==
    <<conversation_history, dispatches, http_posts, fetch_requests, tool_calls,
      turn_log, tool_results, last_call, last_fetch, fs>>

\* C30: chat_with_tools called with the empty utterance returns the empty
\* text at once: the call is over after its first step, no chat call and no
\* request was made, no capability was entered and the history is what it
\* was before the call.
C30_EmptyUtteranceNoDispatch ==
    [][ (\E n \in 0..1 : BeginTurn(<< >>, n)) =>
           /\ pc' = "done"
           /\ returned' = << >>
           /\ dispatches' = 0
           /\ http_posts' = 0
           /\ UNCHANGED turnEffects
      ]_vars

\* The empty utterance was given to a client whose history holds earlier
\* exchanges; the call has returned.
C30_Witness ==
    /\ pc = "done"
    /\ session_calls = 1
    /\ dispatches = 0
    /\ returned = << >>
    /\ current_user_message = PlainText(<< >>)
    /\ Len(conversation_history) = 3
    /\ conversation_history[3].content.text = SysGetTime

====
